---- MODULE Spec2Model ----
(***************************************************************************)
(* A model of the arload library (src/arload/src/lib.rs): the status store *)
(* (write_status, read_status), the refresh of one status (update_status), *)
(* the upload of one file (create_transaction_from_file_path,              *)
(* upload_file_from_path, post_transaction), the filter over the store     *)
(* (filter_statuses), the bounded upload stream (upload_files_stream), the *)
(* joined batches (upload_files_from_paths, update_statuses), the loop of  *)
(* the commands (src/arload/src/main.rs) and the deep hash of a            *)
(* transaction (src/arweave_rs/src/crypto.rs).                             *)
(*                                                                         *)
(* Every await of the code is a step of its own, so that operations        *)
(* interleave where the code lets them.  An Option is a sequence of length *)
(* at most one: <<>> is None and <<x>> is Some(x).  A Base64 value is the  *)
(* sequence of its bytes: the id of an unsigned transaction is <<>>.       *)
(***************************************************************************)
EXTENDS Integers, Sequences, FiniteSets, TLC

\* ------------------------------------------------------------------ bounds
\* The paths of the file system, and the last reading of the clock.
NumPaths == 2
MaxTime == 1
\* Single operations: how many run at a time, the paths they name, and the
\* transactions they sign in all.
MaxConc == 1
MaxCallPaths == 1
MaxTx == 2
\* The stream: the longest input and the largest buffer.
MaxFiles == 3
MaxBuffer == 2
\* The longest list of paths of upload_files_from_paths and update_statuses.
MaxBatch == 2
\* The longest list of tags a caller passes.
MaxTags == 2
\* The largest number_of_confirmations the gateway reports.
MaxConfirms == 1
\* The longest list of paths filter_statuses is called with.
MaxFilterPaths == 2

\* ------------------------------------------------------------- value sets
None == <<>>
Some(x) == <<x>>

\* The sequences over S of length at most n.
SeqsUpTo(S, n) == UNION {[1..k -> S] : k \in 0..n}

Paths == 1..NumPaths
\* The paths the caller of single operations names.
CallPaths == 1..MaxCallPaths
\* One slot more than the largest buffer, so that it is the stream and not
\* the number of slots that bounds the operations in flight.
Slots == 1..(MaxBuffer + 1)

\* The prices GET price/{bytes} answers with (a gateway charges more than
\* nothing), and the reward arguments a caller passes.
GatewayPrices == {3}
RewardArgs == {None, Some(5)}

\* StatusCode (status.rs): Submitted is the default.
StatusCodes == {"Submitted", "Pending", "Confirmed", "NotFound"}
DefaultStatusCode == "Submitted"

\* The raw-status bodies the gateway can answer with.
RawStatuses ==
    [block_height : {1}, block_indep_hash : {<<7>>},
     number_of_confirmations : 0..MaxConfirms]

\* The answers of GET tx/{id}/status: http is the HTTP status (0: the
\* request failed in transport), text the body as a string, json what
\* serde_json parses the body to (None: it is not the JSON of a RawStatus).
RawAnswers ==
    {[http |-> 200, text |-> "Pending", json |-> None],
     [http |-> 200, text |-> "garbage", json |-> None],
     [http |-> 404, text |-> "", json |-> None],
     [http |-> 500, text |-> "", json |-> None],
     [http |-> 0, text |-> "", json |-> None]}
    \cup {[http |-> 200, text |-> "json", json |-> Some(r)] : r \in RawStatuses}

\* The answers of POST tx/: HTTP status; 0 is a transport failure.
PostAnswers == {200, 208, 400, 0}

VARIABLES
    now,        \* the wall clock read by Utc::now()
    disk,       \* log_dir: path -> None (no file) or Some(text of the status file)
    written,    \* history: path -> the Status last written for it
    uploaded,   \* history: path -> the ids of the uploads that logged it
    origin,     \* history: (id, created_at) of every status a POST has built
    gateway,    \* the transaction ids the gateway has accepted by POST
    nextId,     \* the number of transactions signed so far
    ops,        \* the operations in flight, one per slot
    crashed,    \* TRUE once an operation has panicked
    last,       \* the event of the step just taken
    sstate,     \* the stream: "none", "open", "batch", "done", "dropped"
    remaining,  \* the paths the stream's iterator has not yielded yet
    buffer,     \* the stream's concurrency bound
    sargs,      \* the stream's arguments: paths, log_dir, last_tx, reward
    emitted     \* the items the stream has yielded, in order

vars == <<now, disk, written, uploaded, origin, gateway, nextId, ops,
          crashed, last, sstate, remaining, buffer, sargs, emitted>>

streamVars == <<sstate, remaining, buffer, sargs, emitted>>

\* ------------------------------------------------------------- the Status
\* Status::default() with the fields post_transaction sets (status.rs 36-48):
\* created_at and last_modified are two readings of the clock.
NewStatus(id, reward, file_path, t1, t2) ==
    [id |-> id, status |-> DefaultStatusCode, file_path |-> file_path,
     created_at |-> t1, last_modified |-> t2, reward |-> reward,
     raw_status |-> None]

\* to_json without the fields of raw_status.
to_json_without_raw(s) ==
    [id |-> s.id, status |-> s.status, file_path |-> s.file_path,
     created_at |-> s.created_at, last_modified |-> s.last_modified,
     reward |-> s.reward]

\* serde_json::to_string(&status): raw_status is #[serde(flatten)], so its
\* three fields become keys of the top-level object, and no key at all when
\* it is None.
to_json(s) ==
    LET base == [id |-> s.id, status |-> s.status, file_path |-> s.file_path,
                 created_at |-> s.created_at,
                 last_modified |-> s.last_modified, reward |-> s.reward]
    IN  IF s.raw_status = None
        THEN base
        ELSE base @@ [block_height |-> s.raw_status[1].block_height,
                      block_indep_hash |-> s.raw_status[1].block_indep_hash,
                      number_of_confirmations |->
                          s.raw_status[1].number_of_confirmations]

RawKeys == {"block_height", "block_indep_hash", "number_of_confirmations"}

\* serde_json::from_str::<Status>: the flattened Option<RawStatus> is Some
\* exactly when its three keys are in the object.
from_json(j) ==
    [id |-> j.id, status |-> j.status, file_path |-> j.file_path,
     created_at |-> j.created_at, last_modified |-> j.last_modified,
     reward |-> j.reward,
     raw_status |->
        IF RawKeys \subseteq DOMAIN j
        THEN Some([block_height |-> j.block_height,
                   block_indep_hash |-> j.block_indep_hash,
                   number_of_confirmations |-> j.number_of_confirmations])
        ELSE None]

\* The text of a file is the sequence of the JSON objects in it: <<>> is an
\* empty file (fs::write truncates before it writes), <<j>> a status file.
\* fs::write(path, text) ends in one of three ways: the text is written, the
\* file is not created, or the file is created and left empty.
IoOutcomes == {"ok", "not_created", "truncated"}

\* write_status that leaves a status file that is there as it is.
write_status_keeping_first(s, d, io) ==
    IF s.file_path = None
    THEN [result |-> "MissingFilePath", disk |-> d]
    ELSE IF s.id = <<>>
    THEN [result |-> "UnsignedTransaction", disk |-> d]
    ELSE IF d[s.file_path[1]] # None /\ d[s.file_path[1]] # Some(<<>>)
    THEN [result |-> IF io = "ok" THEN "Ok" ELSE "IOError", disk |-> d]
    ELSE IF io = "ok"
    THEN [result |-> "Ok",
          disk |-> [d EXCEPT ![s.file_path[1]] = Some(<<to_json(s)>>)]]
    ELSE IF io = "truncated"
    THEN [result |-> "IOError",
          disk |-> [d EXCEPT ![s.file_path[1]] = Some(<<>>)]]
    ELSE [result |-> "IOError", disk |-> d]

\* write_status without the check of the id.
write_status_unchecked(s, d, io) ==
    IF s.file_path = None
    THEN [result |-> "MissingFilePath", disk |-> d]
    ELSE IF io = "ok"
    THEN [result |-> "Ok",
          disk |-> [d EXCEPT ![s.file_path[1]] = Some(<<to_json(s)>>)]]
    ELSE IF io = "truncated"
    THEN [result |-> "IOError",
          disk |-> [d EXCEPT ![s.file_path[1]] = Some(<<>>)]]
    ELSE [result |-> "IOError", disk |-> d]

\* write_status that keeps every status in one file of log_dir.
write_status_shared_file(s, d, io) ==
    IF s.file_path = None
    THEN [result |-> "MissingFilePath", disk |-> d]
    ELSE IF s.id = <<>>
    THEN [result |-> "UnsignedTransaction", disk |-> d]
    ELSE IF io = "ok"
    THEN [result |-> "Ok", disk |-> [d EXCEPT ![1] = Some(<<to_json(s)>>)]]
    ELSE IF io = "truncated"
    THEN [result |-> "IOError", disk |-> [d EXCEPT ![1] = Some(<<>>)]]
    ELSE [result |-> "IOError", disk |-> d]

\* write_status (lib.rs 320-337): the result and the log_dir after it.  The
\* file name is the BLAKE3 hash of the path, so there is one file per path.
write_status(s, d, io) ==
    IF s.file_path = None
    THEN [result |-> "MissingFilePath", disk |-> d]
    ELSE IF s.id = <<>>
    THEN [result |-> "UnsignedTransaction", disk |-> d]
    ELSE IF io = "ok"
    THEN [result |-> "Ok",
          disk |-> [d EXCEPT ![s.file_path[1]] = Some(<<to_json(s)>>)]]
    ELSE IF io = "truncated"
    THEN [result |-> "IOError",
          disk |-> [d EXCEPT ![s.file_path[1]] = Some(<<>>)]]
    ELSE [result |-> "IOError", disk |-> d]

\* read_status (lib.rs 339-353).
read_status(p, d) ==
    IF d[p] = None
    THEN [result |-> "StatusNotFound", status |-> None]
    ELSE IF Len(d[p][1]) # 1
    THEN [result |-> "SerdeJson", status |-> None]
    ELSE [result |-> "Ok", status |-> Some(from_json(d[p][1][1]))]

\* ------------------------------------------------------- pure operations
\* sign_transaction (lib.rs 268-275): the id is the SHA-256 of a fresh
\* RSA-PSS signature, so every signing gives an id of its own.
sign_transaction(tx, n) == [tx EXCEPT !.id = <<n>>]

\* create_transaction_from_file_path, the reward (lib.rs 246-250).
tx_reward(reward, price) == IF reward # None THEN reward[1] ELSE price

\* post_transaction without the check of the id.
post_precheck_absent(tx) == "send"

\* post_transaction before its request (lib.rs 282-284).
post_precheck(tx) == IF tx.id = <<>> THEN "UnsignedTransaction" ELSE "send"

\* post_transaction that takes every response for a success.
post_outcome_unchecked(http) == IF http = 0 THEN "Reqwest" ELSE "Ok"

\* post_transaction after the response (lib.rs 294-305): a transport failure
\* is an error, a status other than 200 fails the assert_eq!.
post_outcome(http) ==
    IF http = 0 THEN "Reqwest" ELSE IF http = 200 THEN "Ok" ELSE "panic"

\* update_status that sets Confirmed without storing the body.
update_status_without_body(s, a, t) ==
    LET s1 == [s EXCEPT !.last_modified = t]
    IN  IF a.http = 200
        THEN IF a.text = "Pending"
             THEN [result |-> "Ok", status |-> [s1 EXCEPT !.status = "Pending"]]
             ELSE IF a.json = None
             THEN [result |-> "SerdeJson", status |-> s1]
             ELSE [result |-> "Ok", status |-> [s1 EXCEPT !.status = "Confirmed"]]
        ELSE IF a.http = 404
        THEN [result |-> "Ok", status |-> [s1 EXCEPT !.status = "NotFound"]]
        ELSE [result |-> "panic", status |-> s1]

\* update_status that stamps created_at as well as last_modified.
update_status_stamping_created(s, a, t) ==
    LET s1 == [s EXCEPT !.last_modified = t, !.created_at = t]
    IN  IF a.http = 200
        THEN IF a.text = "Pending"
             THEN [result |-> "Ok", status |-> [s1 EXCEPT !.status = "Pending"]]
             ELSE IF a.json = None
             THEN [result |-> "SerdeJson", status |-> s1]
             ELSE [result |-> "Ok",
                   status |-> [s1 EXCEPT !.raw_status = Some(a.json[1]),
                                         !.status = "Confirmed"]]
        ELSE IF a.http = 404
        THEN [result |-> "Ok", status |-> [s1 EXCEPT !.status = "NotFound"]]
        ELSE [result |-> "panic", status |-> s1]

\* update_status that takes a body it cannot parse for no news and goes on.
update_status_lenient(s, a, t) ==
    LET s1 == [s EXCEPT !.last_modified = t]
    IN  IF a.http = 200
        THEN IF a.text = "Pending"
             THEN [result |-> "Ok", status |-> [s1 EXCEPT !.status = "Pending"]]
             ELSE IF a.json = None
             THEN [result |-> "Ok", status |-> s1]
             ELSE [result |-> "Ok",
                   status |-> [s1 EXCEPT !.raw_status = Some(a.json[1]),
                                         !.status = "Confirmed"]]
        ELSE IF a.http = 404
        THEN [result |-> "Ok", status |-> [s1 EXCEPT !.status = "NotFound"]]
        ELSE [result |-> "panic", status |-> s1]

\* update_status from the response to the write (lib.rs 369-384): the result
\* and the status to be written.
update_status(s, a, t) ==
    LET s1 == [s EXCEPT !.last_modified = t]
    IN  IF a.http = 200
        THEN IF a.text = "Pending"
             THEN [result |-> "Ok", status |-> [s1 EXCEPT !.status = "Pending"]]
             ELSE IF a.json = None
             THEN [result |-> "SerdeJson", status |-> s1]
             ELSE [result |-> "Ok",
                   status |-> [s1 EXCEPT !.raw_status = Some(a.json[1]),
                                         !.status = "Confirmed"]]
        ELSE IF a.http = 404
        THEN [result |-> "Ok", status |-> [s1 EXCEPT !.status = "NotFound"]]
        ELSE [result |-> "panic", status |-> s1]

\* ------------------------------------------------------------ operations
NoTx == [id |-> <<>>, reward |-> 0]

\* An operation in flight: before is the status a refresh has read, status
\* the status to be written, answer the gateway's last answer, steps the
\* steps of the upload it has begun so far, in order, other_tags the tags
\* of the caller and tags those of the transaction.
IdleOp ==
    [kind |-> "idle", pc |-> "idle", file_path |-> None, log_dir |-> None,
     last_tx |-> None, reward |-> None, tx |-> NoTx, before |-> None,
     status |-> None, answer |-> None, requests |-> 0, steps |-> <<>>,
     other_tags |-> None, tags |-> <<>>]

NoEvent == [kind |-> "none"]

Idle(i) == ops[i].kind = "idle"
InFlight == {i \in Slots : ~Idle(i)}

\* The caller starts an operation in the first free slot.
FreeSlot(i) == Idle(i) /\ \A j \in Slots : j < i => ~Idle(j)

CanCall(i) ==
    /\ ~crashed
    /\ sstate = "none"
    /\ Cardinality(InFlight) < MaxConc
    /\ FreeSlot(i)

\* The transactions signed so far and those the uploads in flight have yet
\* to sign: the caller signs at most MaxTx.
Unsigned == {i \in InFlight : ops[i].pc \in {"read", "anchor", "price"}}
CanSign == nextId + Cardinality(Unsigned) < MaxTx

\* Futures that go on running when the stream that owns them is dropped.
Polled_detached(i) ==
    /\ ~crashed
    /\ ~Idle(i)
    /\ sstate = "open" => (Cardinality(InFlight) >= buffer \/ remaining = <<>>)
    /\ sstate = "batch" => \A k \in 1..Len(emitted) : emitted[k].result = "Ok"

\* buffer_unordered polls the futures in its queue only after it has filled
\* the queue from the iterator (stream.rs of futures: the fill loop runs
\* first in poll_next).  An operation the caller awaits is polled at once.
\* A stream that is dropped drops the futures in its queue: they are never
\* polled again.  try_join_all polls its futures until one of them returns
\* an error.
Polled(i) ==
    /\ ~crashed
    /\ ~Idle(i)
    /\ sstate # "dropped"
    /\ sstate = "open" => (Cardinality(InFlight) >= buffer \/ remaining = <<>>)
    /\ sstate = "batch" => \A k \in 1..Len(emitted) : emitted[k].result = "Ok"

Item(i, ev) ==
    [file_path |-> ops[i].file_path, result |-> ev.result,
     status |-> ev.status, slot |-> i]

\* The operation in slot i returns: ev is what it returns.  In the stream the
\* result is the next item; in try_join_all it is the result of future i.
Return(i, ev) ==
    /\ ops' = [ops EXCEPT ![i] = IdleOp]
    /\ last' = ev
    /\ emitted' = IF sstate \in {"open", "batch"}
                  THEN Append(emitted, Item(i, ev))
                  ELSE emitted
    /\ crashed' = crashed

\* The operation in slot i panics: the panic unwinds through the awaiting
\* caller (the futures of the stream run inside its poll_next).
Panic(i, ev) ==
    /\ ops' = ops
    /\ last' = ev
    /\ emitted' = emitted
    /\ crashed' = TRUE

Event(i, result, status) ==
    [kind |-> ops[i].kind, file_path |-> ops[i].file_path, result |-> result,
     status |-> status, answer |-> ops[i].answer, tx |-> ops[i].tx,
     requests |-> ops[i].requests, before |-> ops[i].before,
     log_dir |-> ops[i].log_dir, reward |-> ops[i].reward,
     steps |-> ops[i].steps, other_tags |-> ops[i].other_tags,
     tags |-> ops[i].tags]

\* What a call returns that ends before its first await.
DirectEvent(kind, file_path, result, status, tx) ==
    [kind |-> kind, file_path |-> file_path, result |-> result,
     status |-> status, answer |-> None, tx |-> tx, requests |-> 0,
     before |-> None, log_dir |-> None, reward |-> None, steps |-> <<>>,
     other_tags |-> None, tags |-> <<>>]

LogDirs == {None, Some("log")}
LastTxs == {None, Some(<<44>>)}

\* --------------------------------------------------------------- the clock
Tick ==
    /\ ~crashed
    /\ now < MaxTime
    /\ now' = now + 1
    /\ last' = NoEvent
    /\ UNCHANGED <<disk, written, uploaded, origin, gateway, nextId,
                   ops,
                   crashed, streamVars>>

\* Utc::now() reads the system's wall clock, which is not monotonic: the
\* system (NTP, the administrator) can set it back.
ClockSetBack ==
    /\ ~crashed
    /\ now > 0
    /\ now' = now - 1
    /\ last' = NoEvent
    /\ UNCHANGED <<disk, written, uploaded, origin, gateway, nextId,
                   ops, crashed, streamVars>>

\* ------------------------------------------- upload_file_from_path, by step
\* The call (lib.rs 400-410): create_transaction_from_file_path starts with
\* fs::read(file_path).
StartUpload(i, p, args) ==
    ops' = [ops EXCEPT ![i] =
              [IdleOp EXCEPT !.kind = "upload_file_from_path", !.pc = "read",
                             !.file_path = Some(p), !.log_dir = args.log_dir,
                             !.last_tx = args.last_tx,
                             !.reward = args.reward]]

UploadCall(i, p, log_dir, last_tx, reward) ==
    /\ CanCall(i)
    /\ CanSign
    /\ StartUpload(i, p, [log_dir |-> log_dir, last_tx |-> last_tx,
                          reward |-> reward])
    /\ last' = NoEvent
    /\ UNCHANGED <<now, disk, written, uploaded, origin, gateway, nextId,
                   crashed,
                   streamVars>>

\* What infer::get finds in the bytes of the file at a path (lib.rs 223):
\* the file at path 1 is an image, the others have no type infer knows.
InferredType(p) == IF p = 1 THEN Some("image/png") ELSE None

\* The content type of a file (lib.rs 223-227).
content_type(inferred) ==
    IF inferred # None THEN inferred[1] ELSE "application/json"

Tag(name, value) == [name |-> name, value |-> value]

\* The tags of the transaction (lib.rs 228-233): the Content-Type tag, then
\* the tags of the caller as they are.
transaction_tags(ct, other_tags) ==
    <<Tag("Content-Type", ct)>>
        \o (IF other_tags # None THEN other_tags[1] ELSE <<>>)

\* The steps of create_transaction_from_file_path from the return of
\* fs::read to its next await (lib.rs 214-250): the chunks and the data root
\* are computed, then the anchor is requested unless last_tx was given, and
\* get_price is called when there is no anchor to request.
steps_after_read(last_tx) ==
    <<"read", "chunk", "root">>
        \o (IF last_tx = None THEN <<"anchor">> ELSE <<"price">>)

\* fs::read returns (lib.rs 214-244): on success the chunks, the data root
\* and the tags are computed, and the anchor is requested unless last_tx was
\* given; then get_price is called.
UploadRead(i) ==
    /\ Polled(i)
    /\ ops[i].pc = "read"
    /\ \E ok \in BOOLEAN :
         IF ok
         THEN /\ ops' = [ops EXCEPT
                    ![i].pc = IF ops[i].last_tx = None THEN "anchor"
                              ELSE "price",
                    ![i].requests = @ + 1,
                    ![i].steps = @ \o steps_after_read(ops[i].last_tx),
                    ![i].tags = transaction_tags(
                                    content_type(
                                        InferredType(ops[i].file_path[1])),
                                    ops[i].other_tags)]
              /\ last' = NoEvent
              /\ UNCHANGED <<emitted, crashed>>
         ELSE Return(i, Event(i, "IOError", None))
    /\ UNCHANGED <<now, disk, written, uploaded, origin, gateway, nextId,
                   sstate, remaining, buffer, sargs>>

\* GET tx_anchor answers (lib.rs 239-243); then get_price is called.
UploadAnchor(i) ==
    /\ Polled(i)
    /\ ops[i].pc = "anchor"
    /\ \E ok \in BOOLEAN :
         IF ok
         THEN /\ ops' = [ops EXCEPT ![i].pc = "price",
                                    ![i].last_tx = Some(<<45>>),
                                    ![i].requests = @ + 1,
                                    ![i].steps = Append(@, "price")]
              /\ last' = NoEvent
              /\ UNCHANGED <<emitted, crashed>>
         ELSE Return(i, Event(i, "Reqwest", None))
    /\ UNCHANGED <<now, disk, written, uploaded, origin, gateway, nextId,
                   sstate, remaining, buffer, sargs>>

\* get_price answers (lib.rs 247-265, 184-200; 0 stands for a failure of the
\* price request or of the oracle request after it): the transaction is
\* built and create_transaction_from_file_path returns it; an upload signs
\* it (lib.rs 411) and posts it (lib.rs 412-414, 282-294).
UploadPrice(i) ==
    /\ Polled(i)
    /\ ops[i].pc = "price"
    /\ \E price \in GatewayPrices \cup {0} :
         IF price # 0 /\ ops[i].kind = "create_transaction_from_file_path"
         THEN /\ nextId' = nextId
              /\ Return(i, [Event(i, "Ok", None) EXCEPT
                               !.tx = [id |-> <<>>,
                                       reward |->
                                           tx_reward(ops[i].reward, price)]])
         ELSE IF price # 0
         THEN LET tx == sign_transaction(
                            [id |-> <<>>,
                             reward |-> tx_reward(ops[i].reward, price)],
                            nextId + 1)
              IN  /\ nextId' = nextId + 1
                  /\ IF post_precheck(tx) = "send"
                     THEN /\ ops' = [ops EXCEPT
                                    ![i].pc = "post",
                                    ![i].tx = tx,
                                    ![i].requests = @ + 2,
                                    ![i].steps =
                                        @ \o <<"deep_hash", "sign", "post">>]
                          /\ last' = NoEvent
                          /\ UNCHANGED <<emitted, crashed>>
                     ELSE Return(i, Event(i, post_precheck(tx), None))
         ELSE /\ nextId' = nextId
              /\ Return(i, Event(i, "Reqwest", None))
    /\ UNCHANGED <<now, disk, written, uploaded, origin, gateway,
                   sstate, remaining, buffer, sargs>>

\* The gateway accepts the transaction of a POST in flight, whether or not
\* the client still waits for the response (lib.rs 286-294).
GatewayAccept(i) ==
    /\ ~crashed
    /\ ops[i].pc = "post"
    /\ ops[i].tx.id \notin gateway
    /\ gateway' = gateway \cup {ops[i].tx.id}
    /\ last' = NoEvent
    /\ UNCHANGED <<now, disk, written, uploaded, origin, nextId, ops,
                   crashed, streamVars>>

\* The answer of POST tx/ as an answer record.
PostAnswer(http) == [http |-> http, text |-> "", json |-> None]

\* An upload that writes its status even without a log_dir.
persists_always(kind, log_dir) == kind = "upload_file_from_path"

\* upload_file_from_path writes the status if it has a log_dir (lib.rs
\* 416-418); post_transaction called by the user writes nothing.
persists(kind, log_dir) ==
    kind = "upload_file_from_path" /\ log_dir # None

\* POST tx/ answers (lib.rs 294-305, 416-419): post_transaction builds the
\* Status; upload_file_from_path then writes it if it has a log_dir.  A 2xx
\* answer is the gateway's to a transaction it has accepted, another status
\* to one it has not; a transport failure can follow either.
PostResponse(i) ==
    /\ Polled(i)
    /\ ops[i].pc = "post"
    /\ \E http \in PostAnswers, d \in 0..1 :
         LET out == post_outcome(http)
             st == NewStatus(ops[i].tx.id, ops[i].tx.reward, ops[i].file_path,
                             now, now + d)
             ev(result, status) ==
                 [Event(i, result, status) EXCEPT
                     !.answer = Some(PostAnswer(http))]
         IN  /\ now + d <= MaxTime
             /\ out = "Ok" \/ d = 0
             /\ http = 0 \/ ((http \in {200, 208}) = (ops[i].tx.id \in gateway))
             /\ IF out = "Ok"
                THEN /\ now' = now + d
                     /\ origin' = origin \cup
                            {[id |-> st.id, created_at |-> st.created_at]}
                     /\ IF persists(ops[i].kind, ops[i].log_dir)
                        THEN /\ ops' = [ops EXCEPT
                                  ![i].pc = "write",
                                  ![i].status = Some(st),
                                  ![i].answer = Some(PostAnswer(http)),
                                  ![i].steps = Append(@, "write")]
                             /\ last' = NoEvent
                             /\ UNCHANGED <<emitted, crashed>>
                        ELSE Return(i, ev("Ok", Some(st)))
                ELSE /\ UNCHANGED <<now, origin>>
                     /\ IF out = "panic"
                        THEN Panic(i, ev("panic", None))
                        ELSE Return(i, ev(out, None))
    /\ UNCHANGED <<disk, written, uploaded, gateway, nextId, sstate,
                   remaining, buffer, sargs>>

\* write_status is called (lib.rs 385, 417, 320-331): after its two checks
\* fs::write creates the file, which truncates the file that is there, and
\* only then writes the text.  A reader can see the file in between.
WriteStep(i) ==
    /\ Polled(i)
    /\ ops[i].pc = "write"
    /\ \E io \in IoOutcomes \ {"ok"} :
         LET st == ops[i].status[1]
             w == write_status(st, disk, io)
         IN  /\ disk' = w.disk
             /\ IF w.result = "IOError" /\ io = "truncated"
                THEN /\ written' = [written EXCEPT ![st.file_path[1]] = None]
                     /\ ops' = [ops EXCEPT ![i].pc = "fill"]
                     /\ last' = NoEvent
                     /\ UNCHANGED <<emitted, crashed>>
                ELSE /\ written' = written
                     /\ Return(i, Event(i, w.result, None))
    /\ UNCHANGED <<now, uploaded, origin, gateway, nextId, sstate, remaining,
                   buffer, sargs>>

\* fs::write writes the text and write_status returns (lib.rs 326-332,
\* 385-386, 417-419): the operation returns the status it wrote, or the
\* error of the write, which leaves the file empty.  fs::write runs on a
\* blocking thread, which ends its write even when the stream is dropped.
WriteFill(i) ==
    /\ ~crashed
    /\ ops[i].pc = "fill"
    /\ sstate = "dropped" \/ Polled(i)
    /\ \E io \in IoOutcomes \ {"not_created"} :
         LET st == ops[i].status[1]
             p == st.file_path[1]
             w == write_status(st, disk, io)
             logged == w.result = "Ok" /\ ops[i].kind = "upload_file_from_path"
                           /\ sstate # "dropped"
         IN  /\ disk' = w.disk
             /\ written' = [written EXCEPT ![p] = IF w.result = "Ok"
                                                  THEN Some(st) ELSE None]
             /\ uploaded' = IF logged
                            THEN [uploaded EXCEPT ![p] = Append(@, st.id)]
                            ELSE uploaded
             /\ IF sstate = "dropped"
                THEN /\ ops' = [ops EXCEPT ![i] = IdleOp]
                     /\ last' = NoEvent
                     /\ UNCHANGED <<emitted, crashed>>
                ELSE Return(i, Event(i, w.result,
                                     IF w.result = "Ok" THEN Some(st)
                                     ELSE None))
    /\ UNCHANGED <<now, origin, gateway, nextId, sstate, remaining, buffer,
                   sargs>>

\* create_transaction_from_file_path(file_path, other_tags, last_tx, reward)
\* called by the user (lib.rs 207-214): it starts with fs::read(file_path).
CreateTransactionCall(i, p, other_tags, last_tx, reward) ==
    /\ CanCall(i)
    /\ ops' = [ops EXCEPT ![i] =
                 [IdleOp EXCEPT !.kind = "create_transaction_from_file_path",
                                !.pc = "read",
                                !.file_path = Some(p),
                                !.other_tags = other_tags,
                                !.last_tx = last_tx,
                                !.reward = reward]]
    /\ last' = NoEvent
    /\ UNCHANGED <<now, disk, written, uploaded, origin, gateway, nextId,
                   crashed, streamVars>>

\* ----------------------------------------------------------- direct calls
\* post_transaction(tx, file_path) called by the user (lib.rs 277-294), with
\* a transaction that is signed or not.
PostTransactionCall(i, signed, file_path) ==
    /\ CanCall(i)
    /\ signed => CanSign
    /\ LET tx0 == [id |-> <<>>, reward |-> 5]
           tx == IF signed THEN sign_transaction(tx0, nextId + 1) ELSE tx0
           op == [IdleOp EXCEPT !.kind = "post_transaction", !.pc = "post",
                                !.file_path = file_path, !.tx = tx]
       IN  /\ nextId' = IF signed THEN nextId + 1 ELSE nextId
           /\ IF post_precheck(tx) = "send"
              THEN /\ ops' = [ops EXCEPT ![i] = [op EXCEPT !.requests = 1]]
                   /\ last' = NoEvent
              ELSE /\ ops' = ops
                   /\ last' = DirectEvent("post_transaction", file_path,
                                           post_precheck(tx), None, tx)
    /\ UNCHANGED <<now, disk, written, uploaded, origin, gateway, crashed,
                   streamVars>>

\* The status a user builds to write: Status { id, reward, file_path,
\* ..Default::default() } (lib.rs 549-554).
UserStatus(id, file_path) == NewStatus(id, 5, file_path, now, now)

\* write_status(status, log_dir) called by the user (lib.rs 320).
WriteStatusCall(i, signed, file_path) ==
    /\ CanCall(i)
    /\ signed => CanSign
    /\ LET tx == IF signed THEN sign_transaction(NoTx, nextId + 1) ELSE NoTx
       IN  ops' = [ops EXCEPT ![i] =
                     [IdleOp EXCEPT !.kind = "write_status", !.pc = "write",
                                    !.file_path = file_path,
                                    !.log_dir = Some("log"),
                                    !.tx = tx,
                                    !.status =
                                        Some(UserStatus(tx.id, file_path))]]
    /\ nextId' = IF signed THEN nextId + 1 ELSE nextId
    /\ last' = NoEvent
    /\ UNCHANGED <<now, disk, written, uploaded, origin, gateway, crashed,
                   streamVars>>

\* read_status(file_path, log_dir) called by the user (lib.rs 339-353).
ReadStatusCall(p) ==
    /\ ~crashed
    /\ sstate = "none"
    /\ LET r == read_status(p, disk)
       IN  last' = DirectEvent("read_status", Some(p), r.result, r.status,
                               NoTx)
    /\ UNCHANGED <<now, disk, written, uploaded, origin, gateway, nextId, ops,
                   crashed,
                   streamVars>>

\* ------------------------------------------------- update_status, by step
\* The call (lib.rs 366-368): read_status, then the raw-status request.
UpdateStatusCall(i, p) ==
    /\ CanCall(i)
    /\ LET r == read_status(p, disk)
       IN  IF r.result = "Ok"
           THEN /\ ops' = [ops EXCEPT ![i] =
                            [IdleOp EXCEPT !.kind = "update_status",
                                           !.pc = "raw",
                                           !.file_path = Some(p),
                                           !.log_dir = Some("log"),
                                           !.before = r.status,
                                           !.status = r.status,
                                           !.tx = [id |-> r.status[1].id,
                                                   reward |->
                                                       r.status[1].reward],
                                           !.requests = 1]]
                /\ last' = NoEvent
           ELSE /\ ops' = ops
                /\ last' = DirectEvent("update_status", Some(p), r.result,
                                        None, NoTx)
    /\ UNCHANGED <<now, disk, written, uploaded, origin, gateway, nextId,
                   crashed,
                   streamVars>>

\* GET tx/{id}/status answers (lib.rs 368-385): the status is merged and
\* write_status is called.
RawStatusResponse(i) ==
    /\ Polled(i)
    /\ ops[i].pc = "raw"
    /\ \E a \in RawAnswers :
         IF a.http = 0
         THEN Return(i, Event(i, "Reqwest", None))
         ELSE LET m == update_status(ops[i].status[1], a, now)
              IN  IF m.result = "Ok"
                  THEN /\ ops' = [ops EXCEPT ![i].pc = "write",
                                             ![i].status = Some(m.status),
                                             ![i].answer = Some(a)]
                       /\ last' = NoEvent
                       /\ UNCHANGED <<emitted, crashed>>
                  ELSE IF m.result = "panic"
                  THEN Panic(i, [Event(i, "panic", None) EXCEPT
                                    !.answer = Some(a)])
                  ELSE Return(i, [Event(i, m.result, None) EXCEPT
                                    !.answer = Some(a)])
    /\ UNCHANGED <<now, disk, written, uploaded, origin, gateway, nextId,
                   sstate, remaining, buffer, sargs>>

\* ------------------------------------------------- upload_files_stream
\* A queue that takes one future more than its bound.
can_start_one_more(inflight, max) == inflight <= max

\* buffer_unordered(buffer) takes the next path from the iterator while
\* fewer than buffer futures are in its queue (lib.rs 55-59).
can_start(inflight, max) == inflight < max

\* A stream that ends as soon as the iterator is exhausted.
stream_done_at_end_of_input(left, inflight, max) == left = <<>> /\ max > 0

\* The stream ends when its queue is empty and it has seen the end of the
\* iterator, which it polls only while the queue has room.
stream_done(left, inflight, max) ==
    left = <<>> /\ inflight = 0 /\ inflight < max

StreamStart(i) ==
    /\ ~crashed
    /\ sstate = "open"
    /\ remaining # <<>>
    /\ can_start(Cardinality(InFlight), buffer)
    /\ FreeSlot(i)
    /\ StartUpload(i, Head(remaining), sargs)
    /\ remaining' = Tail(remaining)
    /\ last' = NoEvent
    /\ UNCHANGED <<now, disk, written, uploaded, origin, gateway, nextId,
                   crashed, sstate, buffer, sargs, emitted>>

StreamEnd ==
    /\ ~crashed
    /\ sstate = "open"
    /\ stream_done(remaining, Cardinality(InFlight), buffer)
    /\ sstate' = "done"
    /\ last' = NoEvent
    /\ UNCHANGED <<now, disk, written, uploaded, origin, gateway, nextId, ops,
                   crashed, remaining, buffer, sargs, emitted>>

\* The consumer drops the stream before its end (the commands do so at the
\* first Err item, main.rs 559-563): the futures in its queue are dropped.
StreamDrop ==
    /\ ~crashed
    /\ sstate = "open"
    /\ sstate' = "dropped"
    /\ last' = NoEvent
    /\ UNCHANGED <<now, disk, written, uploaded, origin, gateway, nextId,
                   ops, crashed, remaining, buffer, sargs, emitted>>

\* ------------------------------------------------------------ the deep hash
\* Bytes are sequences of byte tokens, and a digest is the sequence of the
\* tokens it was taken of between two brackets: the hash function is left
\* uninterpreted, and two digests are equal only when they were taken of
\* the same bytes.
hash_SHA384(message) == <<"SHA384(">> \o message \o <<")">>

\* concat_u8_48 (crypto.rs 161-165).
concat_u8_48(left, right) == left \o right

\* hash_all_SHA384 (crypto.rs 150-159): the digest of the digests of the
\* messages, one after the other.
RECURSIVE hashes_of(_)
hashes_of(messages) ==
    IF Len(messages) = 0 THEN <<>>
    ELSE hash_SHA384(Head(messages)) \o hashes_of(Tail(messages))

hash_all_SHA384(messages) == hash_SHA384(hashes_of(messages))

\* n.to_string().as_bytes() and format!("list{}", n), format!("blob{}", n),
\* for numbers of one digit: one byte.
ascii(n) == <<ToString(n)>>
list_tag(n) == <<"list">> \o ascii(n)
blob_tag(n) == <<"blob">> \o ascii(n)

\* The loop of deep_hash_list (crypto.rs 180-184).
RECURSIVE fold_blobs(_, _)
fold_blobs(hash, data) ==
    IF Len(data) = 0 THEN hash
    ELSE LET blob == Head(data)
             blob_hash == hash_all_SHA384(<<blob_tag(Len(blob)), blob>>)
         IN  fold_blobs(hash_SHA384(concat_u8_48(hash, blob_hash)),
                        Tail(data))

\* deep_hash_list that starts from the list tag whatever hash it is given.
deep_hash_list_restarting(data_len, data, hash) ==
    fold_blobs(hash_SHA384(list_tag(data_len)), data)

\* deep_hash_list (crypto.rs 167-186).
deep_hash_list(data_len, data, hash) ==
    fold_blobs(IF hash # None THEN hash[1]
               ELSE hash_SHA384(list_tag(data_len)),
               data)

\* tags.to_slices(): for every tag its name and its value.
to_slices(tags) == [k \in 1..Len(tags) |-> <<tags[k].name, tags[k].value>>]

\* The loop of deep_hash_tags (crypto.rs 192-195).
RECURSIVE fold_tags(_, _)
fold_tags(hash, slices) ==
    IF Len(slices) = 0 THEN hash
    ELSE LET tag_slice == Head(slices)
             tag_slice_hash ==
                 deep_hash_list(Len(tag_slice), tag_slice, None)
         IN  fold_tags(hash_SHA384(concat_u8_48(hash, tag_slice_hash)),
                       Tail(slices))

\* deep_hash_tags (crypto.rs 188-197).
deep_hash_tags(tags) ==
    fold_tags(hash_SHA384(list_tag(Len(tags))), to_slices(tags))

\* deep_hash (crypto.rs 205-235).
deep_hash(transaction) ==
    LET pre_tag_hash ==
            deep_hash_list(9,
                           <<ascii(transaction.format), transaction.owner,
                             transaction.target, ascii(transaction.quantity),
                             ascii(transaction.reward), transaction.last_tx>>,
                           None)
        tag_hash == deep_hash_tags(transaction.tags)
        post_tag_hash == hash_SHA384(concat_u8_48(pre_tag_hash, tag_hash))
    IN  deep_hash_list(0,
                       <<ascii(transaction.data_size), transaction.data_root>>,
                       Some(post_tag_hash))

\* The tags and the transactions deep_hash is called with: names, values,
\* owner, target, last_tx and data_root are bytes, the others numbers (a
\* data transaction has quantity 0 and mostly an empty target).
HashTags ==
    {[name |-> <<"k">>, value |-> <<"v", "w">>],
     [name |-> <<"C", "T">>, value |-> <<>>]}

Transactions ==
    [format : {2}, owner : {<<"o">>, <<"o", "p">>}, target : {<<>>, <<"t">>},
     quantity : {0}, reward : {0, 3}, last_tx : {<<>>, <<"a">>},
     tags : SeqsUpTo(HashTags, MaxTags), data_size : {0, 5},
     data_root : {<<>>, <<"r">>}]

\* deep_hash(&transaction) is called (crypto.rs 205).
DeepHashCall(transaction) ==
    /\ ~crashed
    /\ sstate = "none"
    /\ last' = [kind |-> "deep_hash", tx |-> transaction,
                result |-> deep_hash(transaction)]
    /\ UNCHANGED <<now, disk, written, uploaded, origin, gateway, nextId,
                   ops, crashed, streamVars>>

\* ------------------------------- upload_files_from_paths, update_statuses
\* A join that returns the results in the order in which the futures ended.
try_join_all_as_completed(n, items) ==
    LET bad == {k \in 1..Len(items) : items[k].result # "Ok"}
    IN  IF bad # {}
        THEN [result |-> items[CHOOSE k \in bad : TRUE].result,
              statuses |-> <<>>]
        ELSE [result |-> "Ok",
              statuses |-> [k \in 1..n |-> items[k].status[1]]]

\* try_join_all over n futures (lib.rs 397, 437-447), items the results of
\* the futures that have ended, in the order in which they ended: the error
\* of the future that failed, or the results of all in the order of the
\* futures.
try_join_all(n, items) ==
    LET bad == {k \in 1..Len(items) : items[k].result # "Ok"}
        of(j) == CHOOSE k \in 1..Len(items) : items[k].slot = j
    IN  IF bad # {}
        THEN [result |-> items[CHOOSE k \in bad : TRUE].result,
              statuses |-> <<>>]
        ELSE [result |-> "Ok",
              statuses |-> [j \in 1..n |-> items[of(j)].status[1]]]

\* try_join_all returns (lib.rs 397, 447-448): every future has ended, or
\* one has ended with an error and the others are dropped.
BatchEnd ==
    /\ ~crashed
    /\ sstate = "batch"
    /\ \/ Len(emitted) = Len(sargs.paths)
       \/ \E k \in 1..Len(emitted) : emitted[k].result # "Ok"
    /\ LET r == try_join_all(Len(sargs.paths), emitted)
       IN  /\ sstate' = IF r.result = "Ok" THEN "done" ELSE "dropped"
           /\ last' = [kind |-> sargs.kind, paths |-> sargs.paths,
                       log_dir |-> sargs.log_dir, result |-> r.result,
                       statuses |-> r.statuses]
    /\ UNCHANGED <<now, disk, written, uploaded, origin, gateway, nextId,
                   ops, crashed, remaining, buffer, sargs, emitted>>

\* ------------------------------------------------------------ the commands
\* A consumer that goes on polling the stream after an Err item.
Consuming_past_errors == TRUE

\* command_upload polls the stream while the items are Ok (main.rs 559:
\* while let Some(Ok(status)) = stream.next().await): it still consumes as
\* long as it has received no Err item.
Consuming == \A k \in 1..Len(emitted) : emitted[k].result = "Ok"

\* The counter of the loop (main.rs 558-567) over the items the stream
\* yields: one more for every Ok item, and the loop ends at the first item
\* that is not Ok.
RECURSIVE command_count(_)
command_count(items) ==
    IF items = <<>> THEN 0
    ELSE IF Head(items).result = "Ok" THEN 1 + command_count(Tail(items))
    ELSE 0

\* A step of the stream taken inside the consumer's stream.next().await.
Consumed(A) == Consuming /\ A

\* fs::write on its blocking thread, which needs no poll once the stream is
\* dropped.
CommandWriteFill(i) == (Consuming \/ sstate = "dropped") /\ WriteFill(i)

\* The loop ends, at the end of the stream or at an Err item (main.rs
\* 559-581): the command reports its counter and returns, which drops the
\* stream with the futures still in its queue.
CommandFinish ==
    /\ ~crashed
    /\ sstate = "open"
    /\ stream_done(remaining, Cardinality(InFlight), buffer) \/ ~Consuming
    /\ sstate' = IF Consuming THEN "done" ELSE "dropped"
    /\ last' = [kind |-> "command_upload", result |-> "Ok",
                counter |-> command_count(emitted)]
    /\ UNCHANGED <<now, disk, written, uploaded, origin, gateway, nextId,
                   ops, crashed, remaining, buffer, sargs, emitted>>

\* ------------------------------------------------------- filter_statuses
\* read_statuses (lib.rs 355-364): try_join_all of the read_status of every
\* path, an error as soon as one of them fails.
read_statuses(paths, d) ==
    LET rs == [k \in 1..Len(paths) |-> read_status(paths[k], d)]
        bad == {k \in 1..Len(paths) : rs[k].result # "Ok"}
        first == CHOOSE k \in bad : \A j \in bad : k <= j
    IN  IF bad # {}
        THEN [result |-> rs[first].result, statuses |-> <<>>]
        ELSE [result |-> "Ok",
              statuses |-> [k \in 1..Len(paths) |-> rs[k].status[1]]]

\* The number of confirmations filter_statuses compares (lib.rs 470-474).
confirms(s) ==
    IF s.raw_status # None THEN s.raw_status[1].number_of_confirmations ELSE 0

\* A filter that wants more than min_confirms confirmations.
passes_filter_strictly(s, status, min_confirms) ==
    IF min_confirms # None
    THEN s.status = status /\ confirms(s) > min_confirms[1]
    ELSE s.status = status

\* The closure of filter_statuses (lib.rs 468-480).
passes_filter(s, status, min_confirms) ==
    IF min_confirms # None
    THEN s.status = status /\ confirms(s) >= min_confirms[1]
    ELSE s.status = status

\* A filter that removes from log_dir the records it does not return.
filter_statuses_pruning(paths, d, status, min_confirms) ==
    LET all == read_statuses(paths, d)
        Test(s) == passes_filter(s, status, min_confirms)
        gone == {paths[k] : k \in {j \in 1..Len(all.statuses) :
                                      ~Test(all.statuses[j])}}
    IN  [result |-> all.result,
         statuses |-> SelectSeq(all.statuses, Test),
         disk |-> [p \in Paths |-> IF p \in gone THEN None ELSE d[p]],
         requests |-> 0]

\* filter_statuses (lib.rs 457-484): the result, the log_dir after it and
\* the requests it has made.
filter_statuses(paths, d, status, min_confirms) ==
    LET all == read_statuses(paths, d)
        Test(s) == passes_filter(s, status, min_confirms)
    IN  [result |-> all.result,
         statuses |-> SelectSeq(all.statuses, Test),
         disk |-> d,
         requests |-> 0]

\* The min_confirms arguments of a caller.
MinConfirmsArgs == {None} \cup {Some(n) : n \in 0..(MaxConfirms + 1)}

\* filter_statuses(paths, log_dir, status, min_confirms) called by the user.
FilterStatusesCall(paths, status, min_confirms) ==
    /\ ~crashed
    /\ sstate = "none"
    /\ LET f == filter_statuses(paths, disk, status, min_confirms)
       IN  /\ disk' = f.disk
           /\ last' = [kind |-> "filter_statuses", paths |-> paths,
                       status |-> status, min_confirms |-> min_confirms,
                       result |-> f.result, statuses |-> f.statuses,
                       requests |-> f.requests]
    /\ UNCHANGED <<now, written, uploaded, origin, gateway, nextId, ops,
                   crashed, streamVars>>

\* ------------------------------------------------------- specifications
InitCommon ==
    /\ now = 0
    /\ disk = [p \in Paths |-> None]
    /\ written = [p \in Paths |-> None]
    /\ uploaded = [p \in Paths |-> <<>>]
    /\ origin = {}
    /\ gateway = {}
    /\ nextId = 0
    /\ ops = [i \in Slots |-> IdleOp]
    /\ crashed = FALSE
    /\ last = NoEvent
    /\ emitted = <<>>

\* The library called operation by operation, up to MaxConc at a time.
Init ==
    /\ InitCommon
    /\ sstate = "none"
    /\ remaining = <<>>
    /\ buffer = 0
    /\ sargs = [paths |-> <<>>, log_dir |-> None, last_tx |-> None,
                reward |-> None]

Next ==
    \/ Tick
    \/ ClockSetBack
    \/ \E i \in Slots, p \in CallPaths, ld \in LogDirs, lt \in LastTxs,
          rw \in RewardArgs : UploadCall(i, p, ld, lt, rw)
    \/ \E i \in Slots : UploadRead(i)
    \/ \E i \in Slots : UploadAnchor(i)
    \/ \E i \in Slots : UploadPrice(i)
    \/ \E i \in Slots : GatewayAccept(i)
    \/ \E i \in Slots : PostResponse(i)
    \/ \E i \in Slots : WriteStep(i)
    \/ \E i \in Slots : WriteFill(i)
    \/ \E i \in Slots, signed \in BOOLEAN,
          fp \in {None} \cup {Some(p) : p \in CallPaths} :
          PostTransactionCall(i, signed, fp)
    \/ \E i \in Slots, signed \in BOOLEAN,
          fp \in {None} \cup {Some(p) : p \in CallPaths} :
          WriteStatusCall(i, signed, fp)
    \/ \E p \in CallPaths : ReadStatusCall(p)
    \/ \E i \in Slots, p \in CallPaths : UpdateStatusCall(i, p)
    \/ \E i \in Slots : RawStatusResponse(i)

Spec == Init /\ [][Next]_vars

\* upload_files_stream over a finite list of paths.  Its callers pass no
\* last_tx and no reward (main.rs 554, 684-691; tests/integration.rs 326).
StreamInit ==
    /\ InitCommon
    /\ sstate = "open"
    /\ buffer \in 0..MaxBuffer
    /\ sargs \in [paths : SeqsUpTo(Paths, MaxFiles), log_dir : LogDirs,
                  last_tx : {None}, reward : {None}]
    /\ remaining = sargs.paths

StreamNext ==
    \/ \E i \in Slots : StreamStart(i)
    \/ \E i \in Slots : UploadRead(i)
    \/ \E i \in Slots : UploadAnchor(i)
    \/ \E i \in Slots : UploadPrice(i)
    \/ \E i \in Slots : GatewayAccept(i)
    \/ \E i \in Slots : PostResponse(i)
    \/ \E i \in Slots : WriteStep(i)
    \/ \E i \in Slots : WriteFill(i)
    \/ StreamEnd
    \/ StreamDrop

StreamSpec == StreamInit /\ [][StreamNext]_vars

\* The log_dir under the uploads that log to it and the refreshes, of all
\* paths, called one after the other: a call starts when no operation is in
\* flight.
SeqUploadCall(i, p) ==
    /\ InFlight = {}
    /\ UploadCall(i, p, Some("log"), None, None)

SeqUpdateStatusCall(i, p) ==
    /\ InFlight = {}
    /\ UpdateStatusCall(i, p)

LogNext ==
    \/ \E i \in Slots, p \in Paths : SeqUploadCall(i, p)
    \/ \E i \in Slots : UploadRead(i)
    \/ \E i \in Slots : UploadAnchor(i)
    \/ \E i \in Slots : UploadPrice(i)
    \/ \E i \in Slots : GatewayAccept(i)
    \/ \E i \in Slots : PostResponse(i)
    \/ \E i \in Slots : WriteStep(i)
    \/ \E i \in Slots : WriteFill(i)
    \/ \E i \in Slots, p \in Paths : SeqUpdateStatusCall(i, p)
    \/ \E i \in Slots : RawStatusResponse(i)

LogSpec == Init /\ [][LogNext]_vars

\* The status upload_file_from_path has logged for path p: transaction p,
\* at the price of the gateway.
LoggedStatus(p) ==
    NewStatus(<<p>>, CHOOSE price \in GatewayPrices : TRUE, Some(p), 0, 0)

\* filter_statuses over a log_dir in which upload_files_from_paths has logged
\* every path (tests/integration.rs 210-233), between refreshes.
FilterInit ==
    /\ now = 0
    /\ disk = [p \in Paths |-> Some(<<to_json(LoggedStatus(p))>>)]
    /\ written = [p \in Paths |-> Some(LoggedStatus(p))]
    /\ uploaded = [p \in Paths |-> <<<<p>>>>]
    /\ origin = {[id |-> <<p>>, created_at |-> 0] : p \in Paths}
    /\ gateway = {<<p>> : p \in Paths}
    /\ nextId = NumPaths
    /\ ops = [i \in Slots |-> IdleOp]
    /\ crashed = FALSE
    /\ last = NoEvent
    /\ emitted = <<>>
    /\ sstate = "none"
    /\ remaining = <<>>
    /\ buffer = 0
    /\ sargs = [paths |-> <<>>, log_dir |-> None, last_tx |-> None,
                reward |-> None]

SeqFilterStatusesCall(paths, status, min_confirms) ==
    /\ InFlight = {}
    /\ FilterStatusesCall(paths, status, min_confirms)

FilterNext ==
    \/ \E i \in Slots, p \in Paths : SeqUpdateStatusCall(i, p)
    \/ \E i \in Slots : RawStatusResponse(i)
    \/ \E i \in Slots : WriteStep(i)
    \/ \E i \in Slots : WriteFill(i)
    \/ \E paths \in SeqsUpTo(Paths, MaxFilterPaths), st \in StatusCodes,
          mc \in MinConfirmsArgs : SeqFilterStatusesCall(paths, st, mc)

FilterSpec == FilterInit /\ [][FilterNext]_vars

\* upload_files_from_paths(paths, log_dir, None, None, None) over an empty
\* log_dir (lib.rs 422-449): try_join_all creates the future of every path.
UploadBatchInit ==
    /\ now = 0
    /\ disk = [p \in Paths |-> None]
    /\ written = [p \in Paths |-> None]
    /\ uploaded = [p \in Paths |-> <<>>]
    /\ origin = {}
    /\ gateway = {}
    /\ nextId = 0
    /\ crashed = FALSE
    /\ last = NoEvent
    /\ emitted = <<>>
    /\ sstate = "batch"
    /\ remaining = <<>>
    /\ buffer = 0
    /\ sargs \in [kind : {"upload_files_from_paths"},
                  paths : SeqsUpTo(Paths, MaxBatch), log_dir : LogDirs,
                  last_tx : {None}, reward : {None}]

\* update_statuses(paths, log_dir) (lib.rs 389-398) over a log_dir in which
\* every path is logged.
UpdateBatchInit ==
    /\ now = 0
    /\ disk = [p \in Paths |-> Some(<<to_json(LoggedStatus(p))>>)]
    /\ written = [p \in Paths |-> Some(LoggedStatus(p))]
    /\ uploaded = [p \in Paths |-> <<<<p>>>>]
    /\ origin = {[id |-> <<p>>, created_at |-> 0] : p \in Paths}
    /\ gateway = {<<p>> : p \in Paths}
    /\ nextId = NumPaths
    /\ crashed = FALSE
    /\ last = NoEvent
    /\ emitted = <<>>
    /\ sstate = "batch"
    /\ remaining = <<>>
    /\ buffer = 0
    /\ sargs \in [kind : {"update_statuses"},
                  paths : SeqsUpTo(Paths, MaxBatch), log_dir : {Some("log")},
                  last_tx : {None}, reward : {None}]

\* The future of position k of the batch, at its first await.
BatchOp(k) ==
    IF k > Len(sargs.paths)
    THEN IdleOp
    ELSE IF sargs.kind = "upload_files_from_paths"
    THEN [IdleOp EXCEPT !.kind = "upload_file_from_path", !.pc = "read",
                        !.file_path = Some(sargs.paths[k]),
                        !.log_dir = sargs.log_dir,
                        !.last_tx = sargs.last_tx,
                        !.reward = sargs.reward]
    ELSE LET r == read_status(sargs.paths[k], disk)
         IN  [IdleOp EXCEPT !.kind = "update_status", !.pc = "raw",
                            !.file_path = Some(sargs.paths[k]),
                            !.log_dir = sargs.log_dir,
                            !.before = r.status,
                            !.status = r.status,
                            !.tx = [id |-> r.status[1].id,
                                    reward |-> r.status[1].reward],
                            !.requests = 1]

BatchInit ==
    /\ UploadBatchInit \/ UpdateBatchInit
    /\ ops = [k \in Slots |-> BatchOp(k)]

BatchNext ==
    \/ \E i \in Slots : UploadRead(i)
    \/ \E i \in Slots : UploadAnchor(i)
    \/ \E i \in Slots : UploadPrice(i)
    \/ \E i \in Slots : GatewayAccept(i)
    \/ \E i \in Slots : PostResponse(i)
    \/ \E i \in Slots : RawStatusResponse(i)
    \/ \E i \in Slots : WriteStep(i)
    \/ \E i \in Slots : WriteFill(i)
    \/ BatchEnd

BatchSpec == BatchInit /\ [][BatchNext]_vars

\* deep_hash over every transaction.
HashNext == \E transaction \in Transactions : DeepHashCall(transaction)

HashSpec == Init /\ [][HashNext]_vars

\* command_upload over a finite list of paths (main.rs 543-581).
CommandNext ==
    \/ \E i \in Slots : Consumed(StreamStart(i))
    \/ \E i \in Slots : Consumed(UploadRead(i))
    \/ \E i \in Slots : Consumed(UploadAnchor(i))
    \/ \E i \in Slots : Consumed(UploadPrice(i))
    \/ \E i \in Slots : GatewayAccept(i)
    \/ \E i \in Slots : Consumed(PostResponse(i))
    \/ \E i \in Slots : Consumed(WriteStep(i))
    \/ \E i \in Slots : CommandWriteFill(i)
    \/ CommandFinish

CommandSpec == StreamInit /\ [][CommandNext]_vars

\* The tags a caller passes (main.rs 62-73 parses them from name:value):
\* other_tags is None or a list of them.
CallerTags == {Tag("Content-Type", "text/html"), Tag("key2", "value2")}
OtherTagsArgs == {None} \cup {Some(t) : t \in SeqsUpTo(CallerTags, MaxTags)}

\* create_transaction_from_file_path called for every file and every list
\* of tags.
TagNext ==
    \/ \E i \in Slots, p \in Paths, t \in OtherTagsArgs, lt \in LastTxs,
          rw \in RewardArgs : CreateTransactionCall(i, p, t, lt, rw)
    \/ \E i \in Slots : UploadRead(i)
    \/ \E i \in Slots : UploadAnchor(i)
    \/ \E i \in Slots : UploadPrice(i)

TagSpec == Init /\ [][TagNext]_vars

\* ----------------------------------------------------------------- claims
\* The status file of path p, when it holds a status.
HasRecord(p) == read_status(p, disk).result = "Ok"
Record(p) == read_status(p, disk).status[1]

ReturnedOk(k) == last.kind = k /\ last.result = "Ok"

\* C1: post_transaction with a transaction whose id is empty returns
\* UnsignedTransaction and has made no network request, whatever the gateway
\* has received so far.
C1_UnsignedPostRejected ==
    (last.kind = "post_transaction" /\ last.tx.id = <<>>)
        => (last.result = "UnsignedTransaction" /\ last.requests = 0)

C1_Witness ==
    /\ last.kind = "post_transaction"
    /\ last.tx.id = <<>>
    /\ last.result = "UnsignedTransaction"
    /\ gateway # {}

\* C2: read_status of a path returns, field for field, the status that the
\* last write_status for that path wrote.
C2_WriteReadRoundTrip ==
    (last.kind = "read_status" /\ written[last.file_path[1]] # None)
        => (last.result = "Ok" /\ last.status = written[last.file_path[1]])

C2_Witness ==
    /\ last.kind = "read_status"
    /\ last.result = "Ok"
    /\ written[last.file_path[1]] # None
    /\ last.status[1].raw_status # None
    /\ last.status[1].id # <<>>

\* C3: in the upload stream never more than buffer operations, and so never
\* more than buffer POSTs, are in flight.
C3_BoundedInFlight ==
    sstate # "none"
        => /\ Cardinality(InFlight) <= buffer
           /\ Cardinality({i \in Slots : ops[i].pc = "post"}) <= buffer

C3_Witness ==
    /\ sstate = "open"
    /\ buffer > 1
    /\ remaining # <<>>
    /\ Cardinality({i \in Slots : ops[i].pc = "post"}) = buffer

\* The number of items of the sequence q that f maps to p.
Count(q, f(_), p) == Cardinality({k \in 1..Len(q) : f(q[k]) = p})
ItemPath(item) == item.file_path[1]
Same(p) == p

\* C4: when the stream has ended, every input path has been emitted exactly
\* as often as it is in the input, in whatever order the operations ended.
C4_EachPathOnce ==
    sstate = "done"
        => /\ Len(emitted) = Len(sargs.paths)
           /\ \A p \in Paths :
                Count(emitted, ItemPath, p) = Count(sargs.paths, Same, p)

C4_Witness ==
    /\ sstate = "done"
    /\ Len(emitted) > 2
    /\ \E k \in 1..Len(emitted) : ItemPath(emitted[k]) # sargs.paths[k]
    /\ \E k \in 1..Len(emitted) : emitted[k].result # "Ok"

\* C5: a failure of one file's upload in the stream is emitted as an Err
\* item and leaves the stream open.
C5_FailureIsErrItem ==
    (sstate # "none" /\ last.kind = "upload_file_from_path"
        /\ last.result # "Ok")
        => /\ ~crashed
           /\ sstate = "open"
           /\ emitted # <<>>
           /\ emitted[Len(emitted)].result = last.result

\* The transaction was posted by an upload.
Uploaded(id) == \E o \in origin : o.id = id

\* C6: every status record on disk that an upload created, and every status
\* an upload or a refresh of it returns, has a raw_status only if its status
\* is Confirmed.
C6_RawStatusOnlyWhenConfirmed ==
    /\ \A p \in Paths :
         (HasRecord(p) /\ Uploaded(Record(p).id)
             /\ Record(p).raw_status # None)
             => Record(p).status = "Confirmed"
    /\ (last.kind \in {"upload_file_from_path", "update_status"}
            /\ last.status # None /\ Uploaded(last.status[1].id)
            /\ last.status[1].raw_status # None)
         => last.status[1].status = "Confirmed"

\* C7: a refresh answered 200 "Pending" sets the status to Pending and
\* clears raw_status, whatever the record was before.
C7_PendingClearsRawStatus ==
    (ReturnedOk("update_status") /\ last.answer[1].http = 200
        /\ last.answer[1].text = "Pending")
        => /\ last.status[1].status = "Pending"
           /\ last.status[1].raw_status = None
           /\ Record(last.file_path[1]).raw_status = None

\* C8: a refresh answered 404 sets the status to NotFound and clears
\* raw_status, whatever the record was before.
C8_NotFoundClearsRawStatus ==
    (ReturnedOk("update_status") /\ last.answer[1].http = 404)
        => /\ last.status[1].status = "NotFound"
           /\ last.status[1].raw_status = None
           /\ Record(last.file_path[1]).raw_status = None

\* C9: a refresh answered 200 with a raw-status JSON body sets the status to
\* Confirmed and raw_status to the body, and the record on disk equals the
\* status returned.
C9_ConfirmedTakesBody ==
    (ReturnedOk("update_status") /\ last.answer[1].http = 200
        /\ last.answer[1].json # None)
        => /\ last.status[1].status = "Confirmed"
           /\ last.status[1].raw_status = last.answer[1].json
           /\ read_status(last.file_path[1], disk).result = "Ok"
           /\ read_status(last.file_path[1], disk).status = last.status

C9_Witness ==
    /\ ReturnedOk("update_status")
    /\ last.answer[1].json # None
    /\ last.answer[1].json[1].number_of_confirmations = MaxConfirms
    /\ last.status[1].last_modified > last.status[1].created_at

\* C10: the created_at of a record on disk is the created_at of the status
\* that the POST of the record's transaction built, after any refreshes.
C10_CreatedAtKept ==
    \A p \in Paths :
        (HasRecord(p) /\ Uploaded(Record(p).id))
            => [id |-> Record(p).id, created_at |-> Record(p).created_at]
                   \in origin

C10_Witness ==
    \E p \in Paths :
        /\ HasRecord(p)
        /\ Uploaded(Record(p).id)
        /\ Record(p).status \in {"Pending", "Confirmed", "NotFound"}
        /\ Record(p).last_modified > Record(p).created_at

\* C11: every successful refresh strictly advances last_modified: the status
\* it returns and the record it leaves have a last_modified greater than the
\* record had before the refresh.
C11_LastModifiedAdvances ==
    ReturnedOk("update_status")
        => /\ last.status[1].last_modified > last.before[1].last_modified
           /\ Record(last.file_path[1]).last_modified
                  > last.before[1].last_modified

\* C12: a refresh whose raw-status answer has an HTTP status other than 200
\* or 404 returns an error value and does not panic.
C12_RefreshErrorNotPanic ==
    (last.kind = "update_status" /\ last.answer # None
        /\ last.answer[1].http \notin {200, 404})
        => /\ ~crashed
           /\ last.result \notin {"Ok", "panic"}

\* C13: an upload whose POST is answered with a non-success status returns
\* an error value, without a panic and without a record of its transaction
\* on disk; one whose POST is answered with a 2xx status goes on as a success
\* with a Submitted status.
C13_PostStatusHandled ==
    (last.kind = "upload_file_from_path" /\ last.answer # None
        /\ last.answer[1].http # 0)
        => /\ ~crashed
           /\ last.result # "panic"
           /\ last.answer[1].http \notin 200..299
                => /\ last.result # "Ok"
                   /\ \A p \in Paths :
                        HasRecord(p) => Record(p).id # last.tx.id
           /\ last.answer[1].http \in 200..299
                => \/ last.result = "Ok" /\ last.status[1].status = "Submitted"
                   \/ last.result = "IOError"

\* The confirmations of a record: those of its raw_status, 0 without one.
Confirmations(r) ==
    IF r.raw_status = None THEN 0
    ELSE r.raw_status[1].number_of_confirmations

\* The positions of the paths whose record passes the filter.
Passing(paths, target, mc) ==
    {k \in 1..Len(paths) :
        /\ Record(paths[k]).status = target
        /\ mc = None \/ Confirmations(Record(paths[k])) >= mc[1]}

\* The j-th smallest element of the set K of numbers.
Kth(K, j) == CHOOSE k \in K : Cardinality({m \in K : m <= k}) = j

AllHaveRecord(paths) == \A k \in 1..Len(paths) : HasRecord(paths[k])

\* C14: over paths that all have a record, filter_statuses returns exactly
\* the records whose status is the target and whose confirmations (0 without
\* a raw_status) are at least min_confirms when it is given, in the order of
\* the paths.
C14_FilterReturnsMatching ==
    (last.kind = "filter_statuses" /\ AllHaveRecord(last.paths))
        => LET pass == Passing(last.paths, last.status, last.min_confirms)
           IN  /\ last.result = "Ok"
               /\ Len(last.statuses) = Cardinality(pass)
               /\ \A j \in 1..Len(last.statuses) :
                    last.statuses[j] = Record(last.paths[Kth(pass, j)])

C14_Witness ==
    /\ last.kind = "filter_statuses"
    /\ Len(last.paths) = 2
    /\ AllHaveRecord(last.paths)
    /\ last.min_confirms = Some(1)
    /\ Record(last.paths[1]).status = last.status
    /\ Confirmations(Record(last.paths[1])) = 0
    /\ Record(last.paths[2]).status = last.status
    /\ last.statuses = <<Record(last.paths[2])>>

\* C15: filter_statuses writes and deletes no status file and makes no
\* gateway request, and whether it succeeds is a function of the records on
\* disk: it succeeds exactly when every path has a record.
C15_FilterIsPure ==
    [][last'.kind = "filter_statuses"
          => /\ disk' = disk
             /\ gateway' = gateway
             /\ last'.requests = 0
             /\ (last'.result = "Ok") = AllHaveRecord(last'.paths)]_vars

C15_Witness ==
    /\ last.kind = "filter_statuses"
    /\ last.result = "Ok"
    /\ Len(last.paths) = 2
    /\ Len(last.statuses) = 1
    /\ gateway # {}

\* C16: a successful upload returns a Submitted status with the id and the
\* reward of the signed transaction and the path of the file; with a log_dir
\* the record read back for the path equals the status returned; without a
\* log_dir the upload never comes to write a status file, and the log_dir
\* holds no record of its transaction.
C16_UploadReturnsSubmitted ==
    /\ ReturnedOk("upload_file_from_path")
         => /\ last.status[1].status = "Submitted"
            /\ last.tx.id # <<>>
            /\ last.status[1].id = last.tx.id
            /\ last.status[1].reward = last.tx.reward
            /\ last.status[1].file_path = last.file_path
            /\ last.log_dir # None
                 => /\ read_status(last.file_path[1], disk).result = "Ok"
                    /\ read_status(last.file_path[1], disk).status
                           = last.status
            /\ last.log_dir = None
                 => \A p \in Paths :
                        HasRecord(p) => Record(p).id # last.tx.id
    /\ \A i \in Slots :
         (ops[i].kind = "upload_file_from_path" /\ ops[i].log_dir = None)
             => ops[i].pc \notin {"write", "fill"}

C16_Witness ==
    /\ ReturnedOk("upload_file_from_path")
    /\ last.log_dir # None
    /\ read_status(last.file_path[1], disk).status = last.status
    /\ last.status[1].reward = 5
    /\ last.status[1].last_modified > last.status[1].created_at

\* C17: under uploads and refreshes called one after the other, the record
\* of a path carries the id of the most recent successful upload that logged
\* the path (log_dir has one file per path, so at most one record).
C17_RecordOfLatestUpload ==
    \A p \in Paths :
        (uploaded[p] # <<>> /\ HasRecord(p))
            => Record(p).id = uploaded[p][Len(uploaded[p])]

C17_Witness ==
    \E p \in Paths :
        /\ Len(uploaded[p]) = 2
        /\ HasRecord(p)
        /\ Record(p).id = uploaded[p][2]
        /\ Record(p).id # uploaded[p][1]
        /\ Record(p).status # "Submitted"

\* C18: once the consumer has dropped the stream, an upload suspended in its
\* POST stays there: it takes no further step, so it writes no status, and
\* log_dir holds no record of its transaction, whether or not the gateway
\* has accepted the transaction.
C18_DroppedPostWritesNothing ==
    /\ [](sstate = "dropped"
            => \A i \in Slots, p \in Paths :
                   (ops[i].pc = "post" /\ HasRecord(p))
                       => Record(p).id # ops[i].tx.id)
    /\ [][sstate = "dropped"
            => \A i \in Slots :
                   ops[i].pc = "post" => ops'[i] = ops[i]]_vars

C18_Witness ==
    /\ sstate = "dropped"
    /\ \E i \in Slots :
         /\ ops[i].pc = "post"
         /\ ops[i].log_dir # None
         /\ ops[i].tx.id \in gateway
         /\ \E p \in Paths : HasRecord(p)

\* C19 as stated: write_status with a status whose id is empty fails with
\* UnsignedTransaction and leaves log_dir unchanged.
C19_EmptyIdIsUnsigned ==
    [][(last'.kind = "write_status" /\ last'.tx.id = <<>>)
          => /\ last'.result = "UnsignedTransaction"
             /\ disk' = disk]_vars

\* C19: write_status with a status whose id is empty fails and leaves
\* log_dir unchanged: with UnsignedTransaction when the status has a
\* file_path, with MissingFilePath when it has none.
C19_EmptyIdRejected ==
    [][(last'.kind = "write_status" /\ last'.tx.id = <<>>)
          => /\ last'.result = IF last'.file_path = None
                               THEN "MissingFilePath"
                               ELSE "UnsignedTransaction"
             /\ disk' = disk]_vars

C19_Witness ==
    /\ last.kind = "write_status"
    /\ last.tx.id = <<>>
    /\ last.file_path # None
    /\ last.result = "UnsignedTransaction"
    /\ HasRecord(last.file_path[1])

\* C20: a read_status, or the read of a refresh, of a path whose status file
\* a write_status is writing sees a complete record (or no file yet), never
\* an empty file.
C20_WriteIsAtomic ==
    (last.kind \in {"read_status", "update_status"} /\ last.requests = 0
        /\ \E i \in Slots : /\ ops[i].pc = "fill"
                             /\ ops[i].file_path = last.file_path)
        => last.result \in {"Ok", "StatusNotFound"}

Distinct(paths) ==
    \A j, k \in 1..Len(paths) : paths[j] = paths[k] => j = k

\* A batch has returned Ok: upload_files_from_paths with a log_dir, or
\* update_statuses.
BatchReturnedOk(k) == last.kind = k /\ last.result = "Ok"

\* C21 as stated: a successful upload_files_from_paths with a log_dir
\* returns one status per input path, in input order, and the list equals
\* what read_statuses returns for the same paths from the log_dir.
C21_BatchEqualsReadStatuses ==
    (BatchReturnedOk("upload_files_from_paths") /\ last.log_dir # None)
        => /\ Len(last.statuses) = Len(last.paths)
           /\ \A k \in 1..Len(last.paths) :
                last.statuses[k].file_path = Some(last.paths[k])
           /\ read_statuses(last.paths, disk)
                  = [result |-> "Ok", statuses |-> last.statuses]

\* C21: a successful upload_files_from_paths returns one status per input
\* path, in input order; with a log_dir and input paths that are pairwise
\* distinct, the list equals what read_statuses returns for the same paths
\* from the log_dir.
C21_BatchOfDistinctPaths ==
    BatchReturnedOk("upload_files_from_paths")
        => /\ Len(last.statuses) = Len(last.paths)
           /\ \A k \in 1..Len(last.paths) :
                last.statuses[k].file_path = Some(last.paths[k])
           /\ (last.log_dir # None /\ Distinct(last.paths))
                => read_statuses(last.paths, disk)
                       = [result |-> "Ok", statuses |-> last.statuses]

C21_Witness ==
    /\ BatchReturnedOk("upload_files_from_paths")
    /\ last.log_dir # None
    /\ Len(last.paths) = 2
    /\ Distinct(last.paths)
    /\ emitted[1].slot = 2
    /\ read_statuses(last.paths, disk).statuses = last.statuses

\* The number of Content-Type tags in a list of tags.
ContentTypeTags(tags) ==
    Cardinality({k \in 1..Len(tags) : tags[k].name = "Content-Type"})

\* C22: every transaction create_transaction_from_file_path returns has
\* exactly one Content-Type tag, whatever the file and the tags of the
\* caller.
C22_OneContentTypeTag ==
    (last.kind = "create_transaction_from_file_path" /\ last.result = "Ok")
        => ContentTypeTags(last.tags) = 1

\* The steps of the sequence are in the order of their ranks.
InOrder(steps, rank(_)) ==
    \A j, k \in 1..Len(steps) : j < k => rank(steps[j]) <= rank(steps[k])

\* The order of the steps as the specification lists them: the fetch of the
\* anchor and of the price comes first (the read of the file is not listed).
ListedRank(step) ==
    CASE step = "read" -> 0
      [] step \in {"anchor", "price"} -> 1
      [] step = "chunk" -> 2
      [] step = "root" -> 3
      [] step = "deep_hash" -> 4
      [] step = "sign" -> 5
      [] step = "post" -> 6
      [] step = "write" -> 7

\* The order of the steps with the two fetches after the data root.
FetchLaterRank(step) ==
    CASE step = "read" -> 0
      [] step = "chunk" -> 1
      [] step = "root" -> 2
      [] step = "anchor" -> 3
      [] step = "price" -> 4
      [] step = "deep_hash" -> 5
      [] step = "sign" -> 6
      [] step = "post" -> 7
      [] step = "write" -> 8

NoStepTwice(steps) ==
    \A j, k \in 1..Len(steps) : steps[j] = steps[k] => j = k

\* The upload in slot i writes its status only after its POST was answered
\* 200 by a gateway that has accepted the transaction.
WritesAfterPost(i) ==
    (ops[i].pc \in {"write", "fill"}
        \/ \E k \in 1..Len(ops[i].steps) : ops[i].steps[k] = "write")
        => /\ ops[i].answer # None
           /\ ops[i].answer[1].http = 200
           /\ ops[i].tx.id \in gateway
           /\ ops[i].steps[Len(ops[i].steps)] = "write"

\* C23 as stated: the steps of an upload begin in the order anchor/price
\* fetch, chunking, data root, deep hash, sign, post, status write, and the
\* status is written only after the POST has succeeded.
C23_StepsInListedOrder ==
    \A i \in Slots :
        ops[i].kind = "upload_file_from_path"
            => /\ InOrder(ops[i].steps, ListedRank)
               /\ NoStepTwice(ops[i].steps)
               /\ WritesAfterPost(i)

\* C23: the steps of an upload begin in the order read, chunking, data root,
\* anchor fetch (without a last_tx), price fetch, deep hash, sign, post,
\* status write, each once, and the status is written only after the POST
\* has succeeded.
C23_StepsInOrder ==
    \A i \in Slots :
        ops[i].kind = "upload_file_from_path"
            => /\ InOrder(ops[i].steps, FetchLaterRank)
               /\ NoStepTwice(ops[i].steps)
               /\ WritesAfterPost(i)

C23_Witness ==
    \E i \in Slots :
        /\ ops[i].kind = "upload_file_from_path"
        /\ ops[i].pc = "fill"
        /\ ops[i].steps = <<"read", "chunk", "root", "anchor", "price",
                            "deep_hash", "sign", "post", "write">>

\* C24: an upload called with a reward makes no price request, and the
\* transaction it builds has the reward of the call.
C24_PriceOnlyWithoutReward ==
    (last.kind = "upload_file_from_path" /\ last.reward # None)
        => /\ \A k \in 1..Len(last.steps) : last.steps[k] # "price"
           /\ last.tx.id # <<>> => last.tx.reward = last.reward[1]

\* The status file of path p before the batch: upload_files_from_paths
\* starts on an empty log_dir, update_statuses on the logged uploads.
FileBefore(p) ==
    IF sargs.kind = "update_statuses"
    THEN Some(<<to_json(LoggedStatus(p))>>)
    ELSE None

\* C25: of the concurrent uploads of upload_files_from_paths, or refreshes
\* of update_statuses, every step of an operation on path p leaves the
\* status files of all other paths as they are; and for a path that is once
\* in the input, when its operation has returned Ok the record of the path
\* is the status it returned (with a log_dir), and when it has failed before
\* its write the status file is as it was before the batch: as if the
\* operation had run alone.
C25_WritesOwnRecordOnly ==
    /\ [][/\ \A i \in Slots :
               (ops'[i] # ops[i] /\ ops[i].file_path # None)
                   => \A p \in Paths \ {ops[i].file_path[1]} :
                          disk'[p] = disk[p]
          /\ ops' = ops => disk' = disk]_vars
    /\ [](sstate \in {"batch", "done", "dropped"}
            => \A k \in 1..Len(emitted) :
                 LET it == emitted[k]
                     p == it.file_path[1]
                 IN  Count(sargs.paths, Same, p) = 1
                        => /\ (it.result = "Ok" /\ sargs.log_dir # None)
                                => /\ HasRecord(p)
                                   /\ Record(p) = it.status[1]
                           /\ it.result \notin {"Ok", "IOError"}
                                => disk[p] = FileBefore(p))

C25_Witness ==
    /\ sstate = "done"
    /\ sargs.kind = "update_statuses"
    /\ Len(sargs.paths) = 2
    /\ Distinct(sargs.paths)
    /\ emitted[1].slot = 2
    /\ HasRecord(1) /\ HasRecord(2)
    /\ Record(1).status = "Confirmed"
    /\ Record(2).status = "Pending"

\* The items of the deep hash: a blob of bytes, or a list of items.
Blob(bytes) == [list |-> FALSE, bytes |-> bytes]
List(items) == [list |-> TRUE, items |-> items]

\* The recursive deep hash: of a blob the digest of the digests of its tag
\* "blob" and length and of its bytes; of a list the digest of the tag "list"
\* and length, into which the deep hash of every child is folded in turn.
RECURSIVE DeepHash(_), DeepHashChunks(_, _)
DeepHash(item) ==
    IF item.list
    THEN DeepHashChunks(item.items,
                        hash_SHA384(<<"list", ToString(Len(item.items))>>))
    ELSE hash_SHA384(
             hash_SHA384(<<"blob", ToString(Len(item.bytes))>>)
                 \o hash_SHA384(item.bytes))

DeepHashChunks(items, acc) ==
    IF Len(items) = 0 THEN acc
    ELSE DeepHashChunks(Tail(items),
                        hash_SHA384(acc \o DeepHash(Head(items))))

\* The list of nine items of a transaction: tag_list is the list of the
\* lists [name, value] of the tags.
TransactionList(tx) ==
    List(<<Blob(<<ToString(tx.format)>>), Blob(tx.owner), Blob(tx.target),
           Blob(<<ToString(tx.quantity)>>), Blob(<<ToString(tx.reward)>>),
           Blob(tx.last_tx),
           List([k \in 1..Len(tx.tags) |->
                    List(<<Blob(tx.tags[k].name), Blob(tx.tags[k].value)>>)]),
           Blob(<<ToString(tx.data_size)>>), Blob(tx.data_root)>>)

\* C26: for every transaction and every list of tags, deep_hash returns the
\* recursive deep hash of the list [format, owner, target, quantity, reward,
\* last_tx, tag_list, data_size, data_root] of the transaction.
C26_DeepHashIsRecursiveHash ==
    last.kind = "deep_hash"
        => last.result = DeepHash(TransactionList(last.tx))

C26_Witness ==
    /\ last.kind = "deep_hash"
    /\ Len(last.tx.tags) = 2
    /\ last.tx.tags[1] # last.tx.tags[2]
    /\ last.tx.target = <<>>
    /\ last.tx.data_root # <<>>
    /\ last.result = DeepHash(TransactionList(last.tx))

\* The failures of a refresh before its write: no record (or a record that
\* does not parse), a transport error, a body that does not parse.
RefreshFailures == {"StatusNotFound", "Reqwest", "SerdeJson"}

\* C27: a refresh whose request fails in transport or is answered 200 with a
\* body that is neither "Pending" nor a raw status never comes to its write;
\* the step in which a refresh fails, and every step of a refresh before its
\* write, leaves log_dir as it is; and a refresh of a path without a status
\* file fails with StatusNotFound and has made no gateway request.
C27_FailedRefreshKeepsRecord ==
    /\ [](\A i \in Slots :
            (ops[i].kind = "update_status" /\ ops[i].pc \in {"write", "fill"})
                => /\ ops[i].answer # None
                   /\ ops[i].answer[1].http # 0
                   /\ ops[i].answer[1].text # "garbage")
    /\ [][/\ (last'.kind = "update_status"
                 /\ last'.result \in RefreshFailures)
              => disk' = disk
          /\ (last'.kind = "update_status"
                 /\ disk[last'.file_path[1]] = None)
              => /\ last'.result = "StatusNotFound"
                 /\ last'.requests = 0
                 /\ ops' = ops
          /\ \A i \in Slots :
                (ops[i].kind = "update_status" /\ ops[i].pc = "raw"
                    /\ ops'[i] # ops[i])
                    => disk' = disk]_vars

C27_Witness ==
    /\ last.kind = "update_status"
    /\ last.result = "SerdeJson"
    /\ last.answer # None
    /\ last.answer[1].text = "garbage"
    /\ HasRecord(last.file_path[1])
    /\ Record(last.file_path[1]) = last.before[1]
    /\ now > last.before[1].last_modified

\* C28: every record that a step of a refresh writes has a status in
\* {Pending, Confirmed, NotFound}, so that Submitted is the status of a
\* record only when an upload (or the caller's own write_status) wrote it
\* last; no step of the library removes a status file; and a path that had
\* a record when a refresh of it began has a record when the refresh has
\* returned, whatever it returned.
C28_RefreshNeverSubmitsNorDeletes ==
    /\ [][/\ \A i \in Slots :
               (ops[i].kind = "update_status" /\ ops'[i] # ops[i]
                   /\ disk' # disk
                   /\ read_status(ops[i].file_path[1], disk').result = "Ok")
                   => read_status(ops[i].file_path[1],
                                  disk').status[1].status
                          \in {"Pending", "Confirmed", "NotFound"}
           /\ \A p \in Paths : disk[p] # None => disk'[p] # None]_vars
    /\ []((last.kind = "update_status" /\ last.before # None
              /\ InFlight = {})
            => HasRecord(last.file_path[1]))

\* C29: an open stream is never stuck, whatever its buffer: it can end, or
\* start the next operation, or it has an operation in flight to complete.
\* With operations that complete and a finite input it therefore ends.
C29_StreamEnds ==
    (sstate = "open" /\ ~crashed)
        => \/ stream_done(remaining, Cardinality(InFlight), buffer)
           \/ remaining # <<>> /\ can_start(Cardinality(InFlight), buffer)
           \/ InFlight # {}

\* The Ok items of the sequence before its first item that is not Ok.
OkPrefix(items) ==
    {k \in 1..Len(items) : \A j \in 1..k : items[j].result = "Ok"}

\* C30: the command receives no item after an Err item; the number of files
\* it reports is the number of Ok items before the first Err; and once an
\* Err has been emitted no operation in flight is polled again: it stays
\* where it is (only a write that has begun on its blocking thread ends,
\* without an item).
C30_ConsumesUpToFirstErr ==
    /\ [](/\ \A k \in 1..Len(emitted) :
                emitted[k].result # "Ok" => k = Len(emitted)
          /\ last.kind = "command_upload"
                => last.counter = Cardinality(OkPrefix(emitted)))
    /\ [][(\E k \in 1..Len(emitted) : emitted[k].result # "Ok")
            => /\ emitted' = emitted
               /\ \A i \in Slots :
                    \/ ops'[i] = ops[i]
                    \/ ops[i].pc = "fill" /\ sstate = "dropped"]_vars

C30_Witness ==
    /\ last.kind = "command_upload"
    /\ last.counter = 1
    /\ Len(emitted) = 2
    /\ sstate = "dropped"
    /\ \E i \in Slots : ops[i].pc = "post" /\ ops[i].log_dir # None

====
